---- MODULE Spec2Model ----
(***************************************************************************)
(* QieLendNative: native-asset lending pool (contracts/QieLendNative.sol). *)
(*                                                                         *)
(* The contract state is modelled field by field.  Every external entry    *)
(* point is one action: it runs the updateInterest and updateUserRewards   *)
(* modifiers, then the function body, and it either commits all writes or  *)
(* reverts to the state before the call (EVM transaction semantics).       *)
(*                                                                         *)
(* Fixed point.  The contract works in uint256 with a 1e18 unit (RAY) and  *)
(* 365 days per year.  The model keeps every formula and every rounding    *)
(* (floor division) of the source but uses a smaller unit, RAY = 1e5, and  *)
(* a clock whose tick is one year, so that all products stay inside the    *)
(* model checker's integers.  Basis-point constants are kept unchanged.    *)
(***************************************************************************)
EXTENDS Integers, FiniteSets, Sequences, TLC

\* ---------------------------------------------------------------- constants
COLLATERAL_FACTOR == 7000
LIQUIDATION_THRESHOLD == 8000
LIQUIDATION_BONUS == 5
RESERVE_FACTOR == 4000
SECONDS_PER_YEAR == 1
BASE_RATE == 200
KINK_UTILIZATION == 8000
MULTIPLIER == 800
JUMP_MULTIPLIER == 2000
RAY == 100000
BPS == 10000

\* ------------------------------------------------------------------- bounds
\* block.timestamp never exceeds MaxTime
MaxTime == 27
\* native funds each externally owned account starts with
InitialFunds == 100
\* calls are explored while the totals stay below this cap
TotalCap == 400
\* number of committed calls explored
MaxCalls == 5

Users == {1, 2}
Amounts == {0, 30, 50}
TimeSteps == {13}
\* utilisation (as a multiple of totalSupply) and index range explored
UtilCap == 2
IndexCap == 10 * RAY

VARIABLES totalSupply, totalBorrow, totalReserves, lastUpdateTime,
          exchangeRate, supplyIndex, borrowIndex, accounts,
          balance, wallet, now, calls, last

vars == <<totalSupply, totalBorrow, totalReserves, lastUpdateTime,
          exchangeRate, supplyIndex, borrowIndex, accounts,
          balance, wallet, now, calls, last>>

\* type(uint256).max, the largest integer of the model
MAX_UINT == 2147483647

Min(a, b) == IF a < b THEN a ELSE b

\* struct UserAccount, all fields zero on first touch
EmptyAccount ==
  [supplyBalance |-> 0, borrowBalance |-> 0, supplyIndex |-> 0,
   borrowIndex |-> 0, collateralEnabled |-> FALSE, accruedRewards |-> 0,
   lastRewardUpdate |-> 0]

\* the contract's global storage as one record
Globals ==
  [totalSupply |-> totalSupply, totalBorrow |-> totalBorrow,
   totalReserves |-> totalReserves, lastUpdateTime |-> lastUpdateTime,
   exchangeRate |-> exchangeRate, supplyIndex |-> supplyIndex,
   borrowIndex |-> borrowIndex]

\* the whole chain state a call reads and writes: the contract's storage
\* (g, accounts), its native balance, and the callers' native balances
Chain ==
  [g |-> Globals, accounts |-> accounts, balance |-> balance, wallet |-> wallet]

\* ------------------------------------------------------------ pure functions
_calculateBorrowRate(utilization) ==
  IF utilization <= KINK_UTILIZATION
  THEN BASE_RATE + (utilization * MULTIPLIER) \div KINK_UTILIZATION
  ELSE LET excessUtilization == utilization - KINK_UTILIZATION
           baseRate == BASE_RATE + MULTIPLIER
       IN baseRate + (excessUtilization * JUMP_MULTIPLIER) \div (BPS - KINK_UTILIZATION)

_calculateHealthFactor(supplyBal, borrowBal) ==
  IF borrowBal = 0 THEN MAX_UINT
  ELSE LET collateralValue == (supplyBal * LIQUIDATION_THRESHOLD) \div BPS
       IN (collateralValue * RAY) \div borrowBal

\* getSupplyBalance: real supply of an account record under globals g
getSupplyBalance(acct, g) == (acct.supplyBalance * g.exchangeRate) \div RAY

\* getBorrowBalance: real borrow of an account record under globals g
getBorrowBalance(acct, g) ==
  LET borrowIdx == IF acct.borrowIndex = 0 THEN g.borrowIndex ELSE acct.borrowIndex
  IN IF acct.borrowBalance = 0 THEN 0
     ELSE (acct.borrowBalance * g.borrowIndex) \div borrowIdx

\* ------------------------------------------------------------------ accrual
\* an index moved backwards by the increment instead of forwards
accrueIndex_Decreasing(index, increment, total) ==
  IF total > 0 /\ (increment * RAY) \div total <= index
  THEN index - (increment * RAY) \div total ELSE index

\* if (total > 0) { index += (increment * 1e18) / total; }
accrueIndex(index, increment, total) ==
  IF total > 0 THEN index + (increment * RAY) \div total ELSE index

\* the elapsed time counted one second too long
accrueElapsed_OffByOne(g, t) == t - g.lastUpdateTime + 1

\* uint256 timeElapsed = block.timestamp - lastUpdateTime;
accrueElapsed(g, t) == t - g.lastUpdateTime

\* accrual that credits the suppliers with the whole interest, reserve cut included
_accrueInterest_ReserveNotDeducted(g, t) ==
  LET timeElapsed == accrueElapsed(g, t) IN
  IF timeElapsed = 0 \/ g.totalSupply = 0
  THEN [g EXCEPT !.lastUpdateTime = t]
  ELSE
    LET utilization == IF g.totalBorrow > 0
                       THEN (g.totalBorrow * RAY) \div g.totalSupply ELSE 0
        borrowRate == _calculateBorrowRate((utilization * BPS) \div RAY)
        borrowRatePerSecond == (borrowRate * RAY) \div (BPS * SECONDS_PER_YEAR)
        interestAccrued == (g.totalBorrow * borrowRatePerSecond * timeElapsed) \div RAY
        reserveAmount == (interestAccrued * RESERVE_FACTOR) \div BPS
        supplyInterest == interestAccrued
        newRate == accrueIndex(g.exchangeRate, supplyInterest, g.totalSupply)
        newIndex == accrueIndex(g.borrowIndex, interestAccrued, g.totalBorrow)
    IN [totalSupply |-> g.totalSupply + supplyInterest,
        totalBorrow |-> g.totalBorrow + interestAccrued,
        totalReserves |-> g.totalReserves + reserveAmount,
        lastUpdateTime |-> t,
        exchangeRate |-> newRate,
        supplyIndex |-> newRate,
        borrowIndex |-> newIndex]

_accrueInterest(g, t) ==
  LET timeElapsed == accrueElapsed(g, t) IN
  IF timeElapsed = 0 \/ g.totalSupply = 0
  THEN [g EXCEPT !.lastUpdateTime = t]
  ELSE
    LET utilization == IF g.totalBorrow > 0
                       THEN (g.totalBorrow * RAY) \div g.totalSupply ELSE 0
        borrowRate == _calculateBorrowRate((utilization * BPS) \div RAY)
        borrowRatePerSecond == (borrowRate * RAY) \div (BPS * SECONDS_PER_YEAR)
        interestAccrued == (g.totalBorrow * borrowRatePerSecond * timeElapsed) \div RAY
        reserveAmount == (interestAccrued * RESERVE_FACTOR) \div BPS
        supplyInterest == interestAccrued - reserveAmount
        newRate == accrueIndex(g.exchangeRate, supplyInterest, g.totalSupply)
        newIndex == accrueIndex(g.borrowIndex, interestAccrued, g.totalBorrow)
    IN [totalSupply |-> g.totalSupply + supplyInterest,
        totalBorrow |-> g.totalBorrow + interestAccrued,
        totalReserves |-> g.totalReserves + reserveAmount,
        lastUpdateTime |-> t,
        exchangeRate |-> newRate,
        supplyIndex |-> newRate,
        borrowIndex |-> newIndex]

\* _updateUserRewards divides by totalSupply when totalBorrow > 0
RewardsPanic(acct, g, t) ==
  /\ acct.supplyBalance # 0
  /\ t - acct.lastRewardUpdate # 0
  /\ g.totalBorrow > 0
  /\ g.totalSupply = 0

_updateUserRewards(acct, g, t) ==
  IF acct.supplyBalance = 0
  THEN [acct EXCEPT !.lastRewardUpdate = t]
  ELSE
    LET timeElapsed == t - acct.lastRewardUpdate IN
    IF timeElapsed = 0 THEN acct
    ELSE
      LET userSupplyBalance == (acct.supplyBalance * g.exchangeRate) \div RAY
          utilization == IF g.totalBorrow > 0
                         THEN (g.totalBorrow * BPS) \div g.totalSupply ELSE 0
          borrowRate == _calculateBorrowRate(utilization)
          supplyRate == (borrowRate * (BPS - RESERVE_FACTOR)) \div BPS
          supplyRatePerSecond == (supplyRate * RAY) \div (BPS * SECONDS_PER_YEAR)
          rewardsPerSecond == (userSupplyBalance * supplyRatePerSecond) \div RAY
      IN [acct EXCEPT !.accruedRewards = @ + rewardsPerSecond * timeElapsed,
                      !.lastRewardUpdate = t]

\* ----------------------------------------------------------- view functions
\* the views read the storage as it is, without running the accrual
getSupplyAPY(g) ==
  IF g.totalSupply = 0 THEN BASE_RATE
  ELSE LET utilization == (g.totalBorrow * BPS) \div g.totalSupply
           borrowRate == _calculateBorrowRate(utilization)
       IN (borrowRate * (BPS - RESERVE_FACTOR)) \div BPS

getBorrowAPY(g) ==
  IF g.totalSupply = 0 THEN BASE_RATE
  ELSE _calculateBorrowRate((g.totalBorrow * BPS) \div g.totalSupply)

getAccruedRewards(acct, g, t) ==
  IF acct.supplyBalance = 0 THEN acct.accruedRewards
  ELSE
    LET timeElapsed == t - acct.lastRewardUpdate IN
    IF timeElapsed = 0 THEN acct.accruedRewards
    ELSE
      LET userSupplyBalance == (acct.supplyBalance * g.exchangeRate) \div RAY
          supplyAPY == getSupplyAPY(g)
          supplyRate == (supplyAPY * RAY) \div BPS
          rewardsPerSecond == (userSupplyBalance * supplyRate) \div SECONDS_PER_YEAR
          newRewards == rewardsPerSecond * timeElapsed
      IN acct.accruedRewards + newRewards

getAvailableToBorrow(acct, g) ==
  IF ~acct.collateralEnabled THEN 0
  ELSE LET userSupplyBalance == (acct.supplyBalance * g.exchangeRate) \div RAY
           maxBorrow == (userSupplyBalance * COLLATERAL_FACTOR) \div BPS
           borrowIdx == IF acct.borrowIndex = 0 THEN g.borrowIndex ELSE acct.borrowIndex
           userBorrowBalance == IF acct.borrowBalance = 0 THEN 0
                                ELSE (acct.borrowBalance * g.borrowIndex) \div borrowIdx
       IN IF maxBorrow > userBorrowBalance THEN maxBorrow - userBorrowBalance ELSE 0

\* ------------------------------------------------------- exploration window
\* Calls are explored from states whose totals, utilisation and indices are
\* inside the window in which every product of the source's arithmetic fits.
InWindowOf(g) ==
  /\ g.totalSupply <= TotalCap
  /\ g.totalBorrow <= TotalCap
  /\ g.totalBorrow <= UtilCap * g.totalSupply \/ g.totalSupply = 0
  /\ g.exchangeRate <= IndexCap
  /\ g.borrowIndex <= IndexCap

InWindow == InWindowOf(Globals)

\* ------------------------------------------------------------- call results
\* a failed call whose accrual writes are not rolled back
Result_NoRollback(c, err, g, midAcct, g2, accts2, bal2, wal2) ==
  [err |-> err, mid |-> g, midAcct |-> midAcct,
   post |-> IF err = "none"
            THEN [g |-> g2, accounts |-> accts2, balance |-> bal2, wallet |-> wal2]
            ELSE [c EXCEPT !.g = g]]

\* A call on chain state c at block.timestamp t yields: err ("none" when the
\* call commits, otherwise the reason it reverts), mid (the globals after the
\* updateInterest modifier), midAcct (the caller's account after the
\* updateUserRewards modifier) and post (the chain state it commits).  A
\* reverted call leaves the chain state as it was before the call.
Result(c, err, g, midAcct, g2, accts2, bal2, wal2) ==
  [err |-> err, mid |-> g, midAcct |-> midAcct,
   post |-> IF err = "none"
            THEN [g |-> g2, accounts |-> accts2, balance |-> bal2, wallet |-> wal2]
            ELSE c]

\* supplyNative that credits the shares but forgets to add to totalSupply
supplyNativeCall_NoTotal(c, t, u, amount) ==
  LET g == _accrueInterest(c.g, t)
      panic == RewardsPanic(c.accounts[u], g, t)
      account == IF panic THEN c.accounts[u] ELSE _updateUserRewards(c.accounts[u], g, t)
      err == IF panic THEN "Panic"
             ELSE IF amount = 0 THEN "InvalidAmount"
             ELSE "none"
      supplyAmount == (amount * RAY) \div g.exchangeRate
      account2 == [account EXCEPT !.supplyBalance = @ + supplyAmount,
                                  !.supplyIndex = g.supplyIndex]
  IN Result(c, err, g, account, g, [c.accounts EXCEPT ![u] = account2],
            c.balance + amount, [c.wallet EXCEPT ![u] = @ - amount])

supplyNativeCall(c, t, u, amount) ==
  LET g == _accrueInterest(c.g, t)
      panic == RewardsPanic(c.accounts[u], g, t)
      account == IF panic THEN c.accounts[u] ELSE _updateUserRewards(c.accounts[u], g, t)
      err == IF panic THEN "Panic"
             ELSE IF amount = 0 THEN "InvalidAmount"
             ELSE "none"
      supplyAmount == (amount * RAY) \div g.exchangeRate
      account2 == [account EXCEPT !.supplyBalance = @ + supplyAmount,
                                  !.supplyIndex = g.supplyIndex]
      g2 == [g EXCEPT !.totalSupply = @ + amount]
  IN Result(c, err, g, account, g2, [c.accounts EXCEPT ![u] = account2],
            c.balance + amount, [c.wallet EXCEPT ![u] = @ - amount])

\* withdraw without the collateral check of an indebted account
withdrawCall_NoCollateralCheck(c, t, u, amount) ==
  LET g == _accrueInterest(c.g, t)
      panic == RewardsPanic(c.accounts[u], g, t)
      account == IF panic THEN c.accounts[u] ELSE _updateUserRewards(c.accounts[u], g, t)
      userSupplyBalance == (account.supplyBalance * g.exchangeRate) \div RAY
      withdrawAmount == (amount * RAY) \div g.exchangeRate
      err == IF panic THEN "Panic"
             ELSE IF amount = 0 THEN "InvalidAmount"
             ELSE IF userSupplyBalance < amount THEN "InsufficientBalance"
             ELSE IF account.supplyBalance < withdrawAmount THEN "Panic"
             ELSE IF g.totalSupply < amount THEN "Panic"
             ELSE IF c.balance < amount THEN "TransferFailed"
             ELSE "none"
      account2 == [account EXCEPT !.supplyBalance = @ - withdrawAmount,
                                  !.supplyIndex = g.supplyIndex]
      g2 == [g EXCEPT !.totalSupply = @ - amount]
  IN Result(c, err, g, account, g2, [c.accounts EXCEPT ![u] = account2],
            c.balance - amount, [c.wallet EXCEPT ![u] = @ + amount])

withdrawCall(c, t, u, amount) ==
  LET g == _accrueInterest(c.g, t)
      panic == RewardsPanic(c.accounts[u], g, t)
      account == IF panic THEN c.accounts[u] ELSE _updateUserRewards(c.accounts[u], g, t)
      userSupplyBalance == (account.supplyBalance * g.exchangeRate) \div RAY
      newSupplyBalance == userSupplyBalance - amount
      maxBorrow == (newSupplyBalance * COLLATERAL_FACTOR) \div BPS
      borrowIdx == IF account.borrowIndex = 0 THEN g.borrowIndex ELSE account.borrowIndex
      currentBorrow == (account.borrowBalance * g.borrowIndex) \div borrowIdx
      withdrawAmount == (amount * RAY) \div g.exchangeRate
      err == IF panic THEN "Panic"
             ELSE IF amount = 0 THEN "InvalidAmount"
             ELSE IF userSupplyBalance < amount THEN "InsufficientBalance"
             ELSE IF account.collateralEnabled /\ account.borrowBalance > 0
                     /\ currentBorrow > maxBorrow THEN "CollateralDisabled"
             ELSE IF account.supplyBalance < withdrawAmount THEN "Panic"
             ELSE IF g.totalSupply < amount THEN "Panic"
             ELSE IF c.balance < amount THEN "TransferFailed"
             ELSE "none"
      account2 == [account EXCEPT !.supplyBalance = @ - withdrawAmount,
                                  !.supplyIndex = g.supplyIndex]
      g2 == [g EXCEPT !.totalSupply = @ - amount]
  IN Result(c, err, g, account, g2, [c.accounts EXCEPT ![u] = account2],
            c.balance - amount, [c.wallet EXCEPT ![u] = @ + amount])

\* borrow without the collateral-capacity check
borrowCall_NoCapacityCheck(c, t, u, amount) ==
  LET g == _accrueInterest(c.g, t)
      panic == RewardsPanic(c.accounts[u], g, t)
      account == IF panic THEN c.accounts[u] ELSE _updateUserRewards(c.accounts[u], g, t)
      err == IF panic THEN "Panic"
             ELSE IF amount = 0 THEN "InvalidAmount"
             ELSE IF ~account.collateralEnabled THEN "CollateralDisabled"
             ELSE IF g.totalBorrow + amount > g.totalSupply THEN "InsufficientLiquidity"
             ELSE IF c.balance < amount THEN "TransferFailed"
             ELSE "none"
      account2 == [account EXCEPT !.borrowBalance = @ + (amount * RAY) \div g.borrowIndex,
                                  !.borrowIndex = g.borrowIndex]
      g2 == [g EXCEPT !.totalBorrow = @ + amount]
  IN Result(c, err, g, account, g2, [c.accounts EXCEPT ![u] = account2],
            c.balance - amount, [c.wallet EXCEPT ![u] = @ + amount])

borrowCall(c, t, u, amount) ==
  LET g == _accrueInterest(c.g, t)
      panic == RewardsPanic(c.accounts[u], g, t)
      account == IF panic THEN c.accounts[u] ELSE _updateUserRewards(c.accounts[u], g, t)
      userSupplyBalance == (account.supplyBalance * g.exchangeRate) \div RAY
      maxBorrow == (userSupplyBalance * COLLATERAL_FACTOR) \div BPS
      borrowIdx == IF account.borrowIndex = 0 THEN g.borrowIndex ELSE account.borrowIndex
      userBorrowBalance == IF account.borrowBalance = 0 THEN 0
                           ELSE (account.borrowBalance * g.borrowIndex) \div borrowIdx
      err == IF panic THEN "Panic"
             ELSE IF amount = 0 THEN "InvalidAmount"
             ELSE IF ~account.collateralEnabled THEN "CollateralDisabled"
             ELSE IF userBorrowBalance + amount > maxBorrow THEN "ExceedsBorrowCapacity"
             ELSE IF g.totalBorrow + amount > g.totalSupply THEN "InsufficientLiquidity"
             ELSE IF c.balance < amount THEN "TransferFailed"
             ELSE "none"
      account2 == [account EXCEPT !.borrowBalance = @ + (amount * RAY) \div g.borrowIndex,
                                  !.borrowIndex = g.borrowIndex]
      g2 == [g EXCEPT !.totalBorrow = @ + amount]
  IN Result(c, err, g, account, g2, [c.accounts EXCEPT ![u] = account2],
            c.balance - amount, [c.wallet EXCEPT ![u] = @ + amount])

\* repay that takes the whole payment off totalBorrow, overpayment included
repayCall_TotalByValue(c, t, u, amount) ==
  LET g == _accrueInterest(c.g, t)
      panic == RewardsPanic(c.accounts[u], g, t)
      account == IF panic THEN c.accounts[u] ELSE _updateUserRewards(c.accounts[u], g, t)
      borrowIdx == IF account.borrowIndex = 0 THEN g.borrowIndex ELSE account.borrowIndex
      userBorrowBalance == IF account.borrowBalance = 0 THEN 0
                           ELSE (account.borrowBalance * g.borrowIndex) \div borrowIdx
      repayAmount == IF amount > userBorrowBalance THEN userBorrowBalance ELSE amount
      err == IF panic THEN "Panic"
             ELSE IF amount = 0 THEN "InvalidAmount"
             ELSE IF g.totalBorrow < amount THEN "Panic"
             ELSE "none"
      account2 == [account EXCEPT
                     !.borrowBalance = ((userBorrowBalance - repayAmount) * RAY) \div g.borrowIndex,
                     !.borrowIndex = g.borrowIndex]
      g2 == [g EXCEPT !.totalBorrow = @ - amount]
  IN Result(c, err, g, account, g2, [c.accounts EXCEPT ![u] = account2],
            c.balance + amount, [c.wallet EXCEPT ![u] = @ - amount])

\* repay that leaves the overpayment out of the reserves
repayCall_ExcessNotReserved(c, t, u, amount) ==
  LET g == _accrueInterest(c.g, t)
      panic == RewardsPanic(c.accounts[u], g, t)
      account == IF panic THEN c.accounts[u] ELSE _updateUserRewards(c.accounts[u], g, t)
      borrowIdx == IF account.borrowIndex = 0 THEN g.borrowIndex ELSE account.borrowIndex
      userBorrowBalance == IF account.borrowBalance = 0 THEN 0
                           ELSE (account.borrowBalance * g.borrowIndex) \div borrowIdx
      repayAmount == IF amount > userBorrowBalance THEN userBorrowBalance ELSE amount
      err == IF panic THEN "Panic"
             ELSE IF amount = 0 THEN "InvalidAmount"
             ELSE IF g.totalBorrow < repayAmount THEN "Panic"
             ELSE "none"
      account2 == [account EXCEPT
                     !.borrowBalance = ((userBorrowBalance - repayAmount) * RAY) \div g.borrowIndex,
                     !.borrowIndex = g.borrowIndex]
      g2 == [g EXCEPT !.totalBorrow = @ - repayAmount]
  IN Result(c, err, g, account, g2, [c.accounts EXCEPT ![u] = account2],
            c.balance + amount, [c.wallet EXCEPT ![u] = @ - amount])

repayCall(c, t, u, amount) ==
  LET g == _accrueInterest(c.g, t)
      panic == RewardsPanic(c.accounts[u], g, t)
      account == IF panic THEN c.accounts[u] ELSE _updateUserRewards(c.accounts[u], g, t)
      borrowIdx == IF account.borrowIndex = 0 THEN g.borrowIndex ELSE account.borrowIndex
      userBorrowBalance == IF account.borrowBalance = 0 THEN 0
                           ELSE (account.borrowBalance * g.borrowIndex) \div borrowIdx
      repayAmount == IF amount > userBorrowBalance THEN userBorrowBalance ELSE amount
      err == IF panic THEN "Panic"
             ELSE IF amount = 0 THEN "InvalidAmount"
             ELSE IF g.totalBorrow < repayAmount THEN "Panic"
             ELSE "none"
      account2 == [account EXCEPT
                     !.borrowBalance = ((userBorrowBalance - repayAmount) * RAY) \div g.borrowIndex,
                     !.borrowIndex = g.borrowIndex]
      g2 == [g EXCEPT !.totalBorrow = @ - repayAmount,
                      !.totalReserves = IF amount > repayAmount
                                        THEN @ + (amount - repayAmount) ELSE @]
  IN Result(c, err, g, account, g2, [c.accounts EXCEPT ![u] = account2],
            c.balance + amount, [c.wallet EXCEPT ![u] = @ - amount])

\* setCollateralEnabled without the outstanding-debt requirement
setCollateralEnabledCall_NoDebtCheck(c, t, u, enabled) ==
  LET g == _accrueInterest(c.g, t)
      panic == RewardsPanic(c.accounts[u], g, t)
      account == IF panic THEN c.accounts[u] ELSE _updateUserRewards(c.accounts[u], g, t)
      err == IF panic THEN "Panic" ELSE "none"
      account2 == [account EXCEPT !.collateralEnabled = enabled]
  IN Result(c, err, g, account, g, [c.accounts EXCEPT ![u] = account2],
            c.balance, c.wallet)

setCollateralEnabledCall(c, t, u, enabled) ==
  LET g == _accrueInterest(c.g, t)
      panic == RewardsPanic(c.accounts[u], g, t)
      account == IF panic THEN c.accounts[u] ELSE _updateUserRewards(c.accounts[u], g, t)
      borrowIdx == IF account.borrowIndex = 0 THEN g.borrowIndex ELSE account.borrowIndex
      userBorrowBalance == IF account.borrowBalance = 0 THEN 0
                           ELSE (account.borrowBalance * g.borrowIndex) \div borrowIdx
      err == IF panic THEN "Panic"
             ELSE IF ~enabled /\ account.borrowBalance > 0 /\ userBorrowBalance # 0
                  THEN "RepayFirst"
             ELSE "none"
      account2 == [account EXCEPT !.collateralEnabled = enabled]
  IN Result(c, err, g, account, g, [c.accounts EXCEPT ![u] = account2],
            c.balance, c.wallet)

claimRewardsCall(c, t, u) ==
  LET g == _accrueInterest(c.g, t)
      panic == RewardsPanic(c.accounts[u], g, t)
      account == IF panic THEN c.accounts[u] ELSE _updateUserRewards(c.accounts[u], g, t)
      rewardAmount == account.accruedRewards
      paid == IF rewardAmount > c.balance THEN c.balance ELSE rewardAmount
      err == IF panic THEN "Panic"
             ELSE IF ~(rewardAmount > 0) THEN "NoRewards"
             ELSE "none"
      account2 == [account EXCEPT !.accruedRewards = 0,
                                  !.lastRewardUpdate = t]
  IN Result(c, err, g, account, g, [c.accounts EXCEPT ![u] = account2],
            c.balance - paid, [c.wallet EXCEPT ![u] = @ + paid])

\* liquidate that carries the updateUserRewards(msg.sender) modifier as well
liquidateCall_SyncsLiquidator(c, t, u, borrower, repayAmount) ==
  LET g == _accrueInterest(c.g, t)
      borrowerAccount == c.accounts[borrower]
      borrowerSupplyBalance == (borrowerAccount.supplyBalance * g.exchangeRate) \div RAY
      borrowerBorrowBalance == (borrowerAccount.borrowBalance * g.borrowIndex)
                                  \div borrowerAccount.borrowIndex
      healthFactor == _calculateHealthFactor(borrowerSupplyBalance, borrowerBorrowBalance)
      repayAmt == IF repayAmount > borrowerBorrowBalance
                  THEN borrowerBorrowBalance ELSE repayAmount
      liquidationBonus == (repayAmt * LIQUIDATION_BONUS) \div BPS
      seizeAmount == repayAmt + liquidationBonus
      seizeAmountScaled == (seizeAmount * RAY) \div g.exchangeRate
      err == IF repayAmount = 0 THEN "InvalidAmount"
             ELSE IF borrower = u THEN "SelfLiquidation"
             ELSE IF ~borrowerAccount.collateralEnabled THEN "NoCollateral"
             ELSE IF borrowerAccount.borrowIndex = 0 THEN "Panic"
             ELSE IF ~(healthFactor < RAY) THEN "NotLiquidatable"
             ELSE IF ~(seizeAmount <= borrowerSupplyBalance) THEN "InsufficientCollateral"
             ELSE IF borrowerAccount.supplyBalance < seizeAmountScaled THEN "Panic"
             ELSE IF g.totalBorrow < repayAmt THEN "Panic"
             ELSE IF g.totalSupply < seizeAmount THEN "Panic"
             ELSE IF c.balance + repayAmount < seizeAmount THEN "TransferFailed"
             ELSE "none"
      account2 == [borrowerAccount EXCEPT
                     !.borrowBalance = ((borrowerBorrowBalance - repayAmt) * RAY) \div g.borrowIndex,
                     !.borrowIndex = g.borrowIndex,
                     !.supplyBalance = @ - seizeAmountScaled,
                     !.supplyIndex = g.supplyIndex]
      g2 == [g EXCEPT !.totalBorrow = @ - repayAmt,
                      !.totalSupply = @ - seizeAmount]
  IN Result(c, err, g, c.accounts[u], g2,
            [c.accounts EXCEPT ![borrower] = account2,
                               ![u] = _updateUserRewards(c.accounts[u], g, t)],
            c.balance + repayAmount - seizeAmount,
            [c.wallet EXCEPT ![u] = @ - repayAmount + seizeAmount])

\* liquidate whose health check also lets through a health factor of one ray
liquidateCall_GateInclusive(c, t, u, borrower, repayAmount) ==
  LET g == _accrueInterest(c.g, t)
      borrowerAccount == c.accounts[borrower]
      borrowerSupplyBalance == (borrowerAccount.supplyBalance * g.exchangeRate) \div RAY
      borrowerBorrowBalance == (borrowerAccount.borrowBalance * g.borrowIndex)
                                  \div borrowerAccount.borrowIndex
      healthFactor == _calculateHealthFactor(borrowerSupplyBalance, borrowerBorrowBalance)
      repayAmt == IF repayAmount > borrowerBorrowBalance
                  THEN borrowerBorrowBalance ELSE repayAmount
      liquidationBonus == (repayAmt * LIQUIDATION_BONUS) \div BPS
      seizeAmount == repayAmt + liquidationBonus
      seizeAmountScaled == (seizeAmount * RAY) \div g.exchangeRate
      err == IF repayAmount = 0 THEN "InvalidAmount"
             ELSE IF borrower = u THEN "SelfLiquidation"
             ELSE IF ~borrowerAccount.collateralEnabled THEN "NoCollateral"
             ELSE IF borrowerAccount.borrowIndex = 0 THEN "Panic"
             ELSE IF ~(healthFactor <= RAY) THEN "NotLiquidatable"
             ELSE IF ~(seizeAmount <= borrowerSupplyBalance) THEN "InsufficientCollateral"
             ELSE IF borrowerAccount.supplyBalance < seizeAmountScaled THEN "Panic"
             ELSE IF g.totalBorrow < repayAmt THEN "Panic"
             ELSE IF g.totalSupply < seizeAmount THEN "Panic"
             ELSE IF c.balance + repayAmount < seizeAmount THEN "TransferFailed"
             ELSE "none"
      account2 == [borrowerAccount EXCEPT
                     !.borrowBalance = ((borrowerBorrowBalance - repayAmt) * RAY) \div g.borrowIndex,
                     !.borrowIndex = g.borrowIndex,
                     !.supplyBalance = @ - seizeAmountScaled,
                     !.supplyIndex = g.supplyIndex]
      g2 == [g EXCEPT !.totalBorrow = @ - repayAmt,
                      !.totalSupply = @ - seizeAmount]
  IN Result(c, err, g, c.accounts[u], g2, [c.accounts EXCEPT ![borrower] = account2],
            c.balance + repayAmount - seizeAmount,
            [c.wallet EXCEPT ![u] = @ - repayAmount + seizeAmount])

liquidateCall(c, t, u, borrower, repayAmount) ==
  LET g == _accrueInterest(c.g, t)
      borrowerAccount == c.accounts[borrower]
      borrowerSupplyBalance == (borrowerAccount.supplyBalance * g.exchangeRate) \div RAY
      borrowerBorrowBalance == (borrowerAccount.borrowBalance * g.borrowIndex)
                                  \div borrowerAccount.borrowIndex
      healthFactor == _calculateHealthFactor(borrowerSupplyBalance, borrowerBorrowBalance)
      repayAmt == IF repayAmount > borrowerBorrowBalance
                  THEN borrowerBorrowBalance ELSE repayAmount
      liquidationBonus == (repayAmt * LIQUIDATION_BONUS) \div BPS
      seizeAmount == repayAmt + liquidationBonus
      seizeAmountScaled == (seizeAmount * RAY) \div g.exchangeRate
      err == IF repayAmount = 0 THEN "InvalidAmount"
             ELSE IF borrower = u THEN "SelfLiquidation"
             ELSE IF ~borrowerAccount.collateralEnabled THEN "NoCollateral"
             ELSE IF borrowerAccount.borrowIndex = 0 THEN "Panic"
             ELSE IF ~(healthFactor < RAY) THEN "NotLiquidatable"
             ELSE IF ~(seizeAmount <= borrowerSupplyBalance) THEN "InsufficientCollateral"
             ELSE IF borrowerAccount.supplyBalance < seizeAmountScaled THEN "Panic"
             ELSE IF g.totalBorrow < repayAmt THEN "Panic"
             ELSE IF g.totalSupply < seizeAmount THEN "Panic"
             ELSE IF c.balance + repayAmount < seizeAmount THEN "TransferFailed"
             ELSE "none"
      account2 == [borrowerAccount EXCEPT
                     !.borrowBalance = ((borrowerBorrowBalance - repayAmt) * RAY) \div g.borrowIndex,
                     !.borrowIndex = g.borrowIndex,
                     !.supplyBalance = @ - seizeAmountScaled,
                     !.supplyIndex = g.supplyIndex]
      g2 == [g EXCEPT !.totalBorrow = @ - repayAmt,
                      !.totalSupply = @ - seizeAmount]
  IN Result(c, err, g, c.accounts[u], g2, [c.accounts EXCEPT ![borrower] = account2],
            c.balance + repayAmount - seizeAmount,
            [c.wallet EXCEPT ![u] = @ - repayAmount + seizeAmount])

\* ------------------------------------------------------------ call records
\* The last committed call: the entry point, msg.sender, the borrower (for
\* liquidate, otherwise msg.sender), the amount and the boolean argument.
CallRecord(op, u, tgt, amount, flag) ==
  [op |-> op, user |-> u, target |-> tgt, amount |-> amount, flag |-> flag]

NoCall == CallRecord("none", 1, 1, 0, FALSE)

\* A committed call writes the chain state it computed; a call that reverts
\* changes nothing and is not a step.
Commit(rec, r) ==
  /\ calls < MaxCalls
  /\ r.err = "none"
  /\ calls' = calls + 1
  /\ last' = rec
  /\ UNCHANGED now
  /\ totalSupply' = r.post.g.totalSupply
  /\ totalBorrow' = r.post.g.totalBorrow
  /\ totalReserves' = r.post.g.totalReserves
  /\ lastUpdateTime' = r.post.g.lastUpdateTime
  /\ exchangeRate' = r.post.g.exchangeRate
  /\ supplyIndex' = r.post.g.supplyIndex
  /\ borrowIndex' = r.post.g.borrowIndex
  /\ accounts' = r.post.accounts
  /\ balance' = r.post.balance
  /\ wallet' = r.post.wallet

Init ==
  /\ totalSupply = 0
  /\ totalBorrow = 0
  /\ totalReserves = 0
  /\ lastUpdateTime = 0
  /\ exchangeRate = RAY
  /\ supplyIndex = RAY
  /\ borrowIndex = RAY
  /\ accounts = [u \in Users |-> EmptyAccount]
  /\ balance = 0
  /\ wallet = [u \in Users |-> InitialFunds]
  /\ now = 1
  /\ calls = 0
  /\ last = NoCall

\* --------------------------------------------------------------- entry points
supplyNative(u, amount) ==
  /\ InWindow
  /\ amount <= wallet[u]
  /\ Commit(CallRecord("supplyNative", u, u, amount, FALSE),
            supplyNativeCall(Chain, now, u, amount))

withdraw(u, amount) ==
  /\ InWindow
  /\ Commit(CallRecord("withdraw", u, u, amount, FALSE),
            withdrawCall(Chain, now, u, amount))

borrow(u, amount) ==
  /\ InWindow
  /\ Commit(CallRecord("borrow", u, u, amount, FALSE),
            borrowCall(Chain, now, u, amount))

repay(u, amount) ==
  /\ InWindow
  /\ amount <= wallet[u]
  /\ Commit(CallRecord("repay", u, u, amount, FALSE),
            repayCall(Chain, now, u, amount))

setCollateralEnabled(u, enabled) ==
  /\ InWindow
  /\ Commit(CallRecord("setCollateralEnabled", u, u, 0, enabled),
            setCollateralEnabledCall(Chain, now, u, enabled))

claimRewards(u) ==
  /\ InWindow
  /\ Commit(CallRecord("claimRewards", u, u, 0, FALSE),
            claimRewardsCall(Chain, now, u))

liquidate(u, borrower, repayAmount) ==
  /\ InWindow
  /\ repayAmount <= wallet[u]
  /\ Commit(CallRecord("liquidate", u, borrower, repayAmount, FALSE),
            liquidateCall(Chain, now, u, borrower, repayAmount))

\* block.timestamp moves forward between calls
Tick(dt) ==
  /\ now + dt <= MaxTime
  /\ now' = now + dt
  /\ last' = NoCall
  /\ UNCHANGED <<calls, totalSupply, totalBorrow, totalReserves, lastUpdateTime,
                 exchangeRate, supplyIndex, borrowIndex, accounts,
                 balance, wallet>>

Next ==
  \/ \E u \in Users, amount \in Amounts : supplyNative(u, amount)
  \/ \E u \in Users, amount \in Amounts : withdraw(u, amount)
  \/ \E u \in Users, amount \in Amounts : borrow(u, amount)
  \/ \E u \in Users, amount \in Amounts : repay(u, amount)
  \/ \E u \in Users, enabled \in BOOLEAN : setCollateralEnabled(u, enabled)
  \/ \E u \in Users : claimRewards(u)
  \/ \E u \in Users, borrower \in Users, amount \in Amounts : liquidate(u, borrower, amount)
  \/ \E dt \in TimeSteps : Tick(dt)

Spec == Init /\ [][Next]_vars

\* ------------------------------------------------- single units, long waits
\* The same entry points explored with a single unit among the amounts and
\* with blocks one year and twenty-three years after the first one: the
\* rounding that a withdrawal of one unit and a long accrual leave behind.
DustAmounts ==
  [supplyNative |-> {50}, withdraw |-> {1, 30}, borrow |-> {30},
   repay |-> {30, 86}, liquidate |-> {30, 86}]
BlockTimes == {2, 24}

\* the next block is mined at timestamp t
Mine(t) ==
  /\ t > now
  /\ t <= MaxTime
  /\ now' = t
  /\ last' = NoCall
  /\ UNCHANGED <<calls, totalSupply, totalBorrow, totalReserves, lastUpdateTime,
                 exchangeRate, supplyIndex, borrowIndex, accounts,
                 balance, wallet>>

NextDust ==
  \/ \E u \in Users, amount \in DustAmounts.supplyNative : supplyNative(u, amount)
  \/ \E u \in Users, amount \in DustAmounts.withdraw : withdraw(u, amount)
  \/ \E u \in Users, amount \in DustAmounts.borrow : borrow(u, amount)
  \/ \E u \in Users, amount \in DustAmounts.repay : repay(u, amount)
  \/ \E u \in Users, enabled \in BOOLEAN : setCollateralEnabled(u, enabled)
  \/ \E u \in Users : claimRewards(u)
  \/ \E u \in Users, borrower \in Users, amount \in DustAmounts.liquidate :
       liquidate(u, borrower, amount)
  \/ \E t \in BlockTimes : Mine(t)

SpecDust == Init /\ [][NextDust]_vars

\* ===================================================================== claims

\* C1: liquidity invariant -- in every reachable state totalBorrow <= totalSupply.
C1_LiquidityInvariant == totalBorrow <= totalSupply

\* C2: exchangeRate and borrowIndex start at one ray and never decrease in
\* any step (timestamps are non-decreasing in every behaviour).
C2_IndicesMonotone ==
  /\ exchangeRate = RAY /\ borrowIndex = RAY
  /\ [][exchangeRate' >= exchangeRate /\ borrowIndex' >= borrowIndex]_vars

\* C2 witness: interest has accrued and moved both indices above one ray.
C2_Witness == exchangeRate > RAY /\ borrowIndex > RAY /\ last.op # "none"

\* C3: every account with collateral disabled has a real borrow of zero.
C3_NoDebtWithoutCollateral ==
  \A u \in Users :
    ~accounts[u].collateralEnabled => getBorrowBalance(accounts[u], Globals) = 0

\* C3 witness: an account that borrowed and repaid has just disabled its collateral.
C3_Witness ==
  /\ last.op = "setCollateralEnabled" /\ ~last.flag
  /\ ~accounts[last.user].collateralEnabled
  /\ accounts[last.user].borrowIndex # 0
  /\ accounts[last.user].supplyBalance > 0

\* C4: borrow(amount) commits only if, after accrual, the caller has collateral
\* enabled, realBorrow + amount <= 70% of realSupply and totalBorrow + amount
\* <= totalSupply; a zero amount reverts with InvalidAmount and the first
\* failed condition, in that order, reverts with CollateralDisabled,
\* ExceedsBorrowCapacity or InsufficientLiquidity.
C4_BorrowChecks ==
  InWindow =>
    \A u \in Users, amount \in Amounts :
      LET r == borrowCall(Chain, now, u, amount)
          realSupply == getSupplyBalance(r.midAcct, r.mid)
          realBorrow == getBorrowBalance(r.midAcct, r.mid)
          enabled == r.midAcct.collateralEnabled
          inCapacity == (realBorrow + amount) * BPS <= realSupply * COLLATERAL_FACTOR
          liquid == r.mid.totalBorrow + amount <= r.mid.totalSupply
      IN /\ r.err = "none" => amount > 0 /\ enabled /\ inCapacity /\ liquid
         /\ amount = 0 => r.err = "InvalidAmount"
         /\ amount > 0 /\ ~enabled => r.err = "CollateralDisabled"
         /\ amount > 0 /\ enabled /\ ~inCapacity => r.err = "ExceedsBorrowCapacity"
         /\ amount > 0 /\ enabled /\ inCapacity /\ ~liquid
               => r.err = "InsufficientLiquidity"

\* C4 witness: a borrow has committed and a further borrow by the same
\* account would exceed its capacity.
C4_Witness ==
  /\ last.op = "borrow"
  /\ InWindow
  /\ \E amount \in Amounts :
       borrowCall(Chain, now, last.user, amount).err = "ExceedsBorrowCapacity"

\* C5: a committed borrow(amount) leaves the caller's real borrow equal to its
\* real borrow after accrual plus amount, up to one unit of rounding.
C5_BorrowKeepsInterest ==
  [][last'.op = "borrow" =>
       LET u == last'.user
           r == borrowCall(Chain, now, u, last'.amount)
           before == getBorrowBalance(r.midAcct, r.mid)
           after == getBorrowBalance(accounts'[u], Globals')
       IN /\ after <= before + last'.amount
          /\ after >= before + last'.amount - 1]_vars

\* C6: a committed repay(amount) lowers the caller's real borrow by
\* repayAmount = min(amount, real borrow after accrual), up to one unit of
\* rounding, and lowers totalBorrow by exactly repayAmount.
C6_RepayExact ==
  [][last'.op = "repay" =>
       LET u == last'.user
           r == repayCall(Chain, now, u, last'.amount)
           before == getBorrowBalance(r.midAcct, r.mid)
           repayAmount == Min(last'.amount, before)
           after == getBorrowBalance(accounts'[u], Globals')
       IN /\ after <= before - repayAmount
          /\ after >= before - repayAmount - 1
          /\ totalBorrow' = r.mid.totalBorrow - repayAmount]_vars

\* C7: a committed repay(amount) with amount above the caller's real borrow
\* adds the excess to totalReserves and keeps the whole payment in the
\* contract; with amount <= real borrow it leaves totalReserves as accrued.
C7_RepayExcessToReserves ==
  [][last'.op = "repay" =>
       LET u == last'.user
           amount == last'.amount
           r == repayCall(Chain, now, u, amount)
           realBorrow == getBorrowBalance(r.midAcct, r.mid)
       IN /\ amount > realBorrow =>
               totalReserves' = r.mid.totalReserves + (amount - realBorrow)
          /\ amount <= realBorrow => totalReserves' = r.mid.totalReserves
          /\ balance' = balance + amount
          /\ wallet'[u] = wallet[u] - amount]_vars

\* C7 witness: in the first block (no interest yet) an indebted account has
\* repaid more than it owed, and the difference is in the reserves.
C7_Witness ==
  /\ last.op = "repay"
  /\ now = 1
  /\ totalReserves > 0
  /\ totalReserves < last.amount
  /\ accounts[last.user].borrowBalance = 0
  /\ accounts[last.user].borrowIndex # 0

\* C8: withdraw(amount > 0) reverts with InsufficientBalance when realSupply <
\* amount, and with CollateralDisabled when the caller has collateral enabled,
\* a positive real borrow and (realSupply - amount) * 70% < realBorrow; after a
\* committed withdraw of an indebted collateral-enabled account its real
\* borrow is at most 70% of its real supply.
C8_WithdrawChecks ==
  /\ InWindow =>
       \A u \in Users, amount \in Amounts \ {0} :
         LET r == withdrawCall(Chain, now, u, amount)
             realSupply == getSupplyBalance(r.midAcct, r.mid)
             realBorrow == getBorrowBalance(r.midAcct, r.mid)
         IN /\ realSupply < amount => r.err = "InsufficientBalance"
            /\ realSupply >= amount /\ r.midAcct.collateralEnabled
                 /\ realBorrow > 0
                 /\ (realSupply - amount) * COLLATERAL_FACTOR < realBorrow * BPS
               => r.err = "CollateralDisabled"
  /\ last.op = "withdraw" /\ accounts[last.user].collateralEnabled
       /\ getBorrowBalance(accounts[last.user], Globals) > 0
     => getBorrowBalance(accounts[last.user], Globals) * BPS
          <= getSupplyBalance(accounts[last.user], Globals) * COLLATERAL_FACTOR

\* C8 witness: an indebted collateral-enabled account has withdrawn, and a
\* further withdrawal would be refused with CollateralDisabled.
C8_Witness ==
  /\ last.op = "withdraw"
  /\ accounts[last.user].collateralEnabled
  /\ accounts[last.user].borrowBalance > 0
  /\ InWindow
  /\ \E amount \in Amounts :
       withdrawCall(Chain, now, last.user, amount).err = "CollateralDisabled"

\* supplyNative(X) by u and then withdraw(X) by u in the same block, from chain
\* state c: both commit, and totalSupply and u's real supply are what they
\* were (after accrual) before the supply.
RoundTripRestores(c, t, u, X) ==
  LET r1 == supplyNativeCall(c, t, u, X)
      r2 == withdrawCall(r1.post, t, u, X)
  IN /\ r1.err = "none"
     /\ r2.err = "none"
     /\ r2.post.g.totalSupply = r1.mid.totalSupply
     /\ getSupplyBalance(r2.post.accounts[u], r2.post.g)
          = getSupplyBalance(r1.midAcct, r1.mid)

\* the caller's debt is within its borrowing limit
WithinLimit(acct, g) ==
  getBorrowBalance(acct, g) * BPS <= getSupplyBalance(acct, g) * COLLATERAL_FACTOR

\* C9 (as claimed): from every reachable state, for every X > 0 the caller can
\* pay, supplyNative(X) then withdraw(X) at the same timestamp commits and
\* restores totalSupply and the caller's real supply.
C9_RoundTrip ==
  InWindow =>
    \A u \in Users, X \in Amounts \ {0} :
      X <= wallet[u] => RoundTripRestores(Chain, now, u, X)

\* C9 (amended): the round trip commits and restores both values from every
\* reachable state in which exchangeRate is still one ray and the caller's
\* debt is within its 70% limit.
C9_RoundTripAtUnitRate ==
  InWindow =>
    \A u \in Users, X \in Amounts \ {0} :
      /\ X <= wallet[u]
      /\ _accrueInterest(Globals, now).exchangeRate = RAY
      /\ WithinLimit(accounts[u], _accrueInterest(Globals, now))
      => RoundTripRestores(Chain, now, u, X)

\* C9 witness: an indebted supplier has just supplied X at exchange rate one
\* ray, and withdrawing X now commits and takes totalSupply back down by X.
C9_Witness ==
  /\ last.op = "supplyNative"
  /\ exchangeRate = RAY
  /\ accounts[last.user].borrowBalance > 0
  /\ InWindow
  /\ LET r == withdrawCall(Chain, now, last.user, last.amount)
     IN /\ r.err = "none"
        /\ r.post.g.totalSupply = totalSupply - last.amount
        /\ getSupplyBalance(r.post.accounts[last.user], r.post.g)
             = getSupplyBalance(accounts[last.user], Globals) - last.amount

\* C10: when a call's accrual runs with block.timestamp = lastUpdateTime or
\* with totalSupply = 0, accrual changes nothing but lastUpdateTime: the
\* indices are unchanged by the call, and so are the totals in the calls
\* that do not move them themselves; accruing twice equals accruing once.
C10_AccrualNoOp ==
  [][last'.op # "none" /\ (now = lastUpdateTime \/ totalSupply = 0) =>
       /\ _accrueInterest(Globals, now) = [Globals EXCEPT !.lastUpdateTime = now]
       /\ _accrueInterest(_accrueInterest(Globals, now), now)
            = _accrueInterest(Globals, now)
       /\ exchangeRate' = exchangeRate
       /\ supplyIndex' = supplyIndex
       /\ borrowIndex' = borrowIndex
       /\ lastUpdateTime' = now
       /\ last'.op \in {"setCollateralEnabled", "claimRewards"} =>
            /\ totalSupply' = totalSupply
            /\ totalBorrow' = totalBorrow
            /\ totalReserves' = totalReserves]_vars

\* C10 witness: a call has run in the first block with debt outstanding; its
\* accrual ran at a repeated timestamp.
C10_Witness ==
  /\ last.op = "setCollateralEnabled"
  /\ now = 1
  /\ lastUpdateTime = now
  /\ totalBorrow > 0
  /\ totalSupply > 0

\* the health factor of the claims: floor(floor(realSupply * 80%) * ray / realBorrow)
HealthOf(acct, g) ==
  LET realSupply == getSupplyBalance(acct, g)
      realBorrow == getBorrowBalance(acct, g)
  IN IF realBorrow = 0 THEN MAX_UINT
     ELSE (((realSupply * LIQUIDATION_THRESHOLD) \div BPS) * RAY) \div realBorrow

\* liquidate(borrower) with value amount by u on chain state c commits only
\* below a health factor of one ray, and the health check lets through every
\* borrower below one ray
LiquidationGate(c, t, u, borrower, amount) ==
  LET r == liquidateCall(c, t, u, borrower, amount)
      hf == HealthOf(c.accounts[borrower], r.mid)
  IN /\ r.err = "none" => hf < RAY
     /\ hf >= RAY => r.err # "none"
     /\ hf < RAY /\ amount > 0 /\ u # borrower => r.err # "NotLiquidatable"

\* sizes of the small positions placed around the liquidation boundary
MaxSmall == 6

\* A small position beside a large one: account 1 supplied s and borrowed b at
\* borrow index one ray, the large position has since moved the borrow index
\* to bi and the exchange rate to 110%; accrual is current at time t = 1.
SmallPosition(s, b, bi) ==
  [g |-> [totalSupply |-> 300, totalBorrow |-> 200, totalReserves |-> 0,
          lastUpdateTime |-> 1, exchangeRate |-> (11 * RAY) \div 10,
          supplyIndex |-> (11 * RAY) \div 10, borrowIndex |-> bi],
   accounts |-> [u \in Users |->
                   IF u = 1
                   THEN [EmptyAccount EXCEPT !.supplyBalance = s,
                                             !.borrowBalance = b,
                                             !.borrowIndex = RAY,
                                             !.collateralEnabled = TRUE,
                                             !.lastRewardUpdate = 1]
                   ELSE EmptyAccount],
   balance |-> 100,
   wallet |-> [u \in Users |-> InitialFunds]]

\* borrow indices under which small debts land on and beside the boundary
BoundaryIndices == {RAY, (4 * RAY) \div 3 + 1, 2 * RAY}

\* the gate on every small position, the boundary health factor of exactly one
\* ray included
GateAtBoundary ==
  \A s \in 0..MaxSmall, b \in 0..MaxSmall, bi \in BoundaryIndices :
    /\ LiquidationGate(SmallPosition(s, b, bi), 1, 2, 1, 1)
    /\ HealthOf(SmallPosition(s, b, bi).accounts[1], SmallPosition(s, b, bi).g) = RAY
         => liquidateCall(SmallPosition(s, b, bi), 1, 2, 1, 1).err = "NotLiquidatable"

\* some small position has a health factor of exactly one ray, and some has
\* one below one ray that liquidate accepts
BoundaryReached ==
  /\ \E s \in 0..MaxSmall, b \in 0..MaxSmall, bi \in BoundaryIndices :
       HealthOf(SmallPosition(s, b, bi).accounts[1], SmallPosition(s, b, bi).g) = RAY
  /\ \E s \in 0..MaxSmall, b \in 0..MaxSmall, bi \in BoundaryIndices :
       /\ HealthOf(SmallPosition(s, b, bi).accounts[1], SmallPosition(s, b, bi).g) < RAY
       /\ liquidateCall(SmallPosition(s, b, bi), 1, 2, 1, 1).err = "none"

\* C11: liquidate commits only against a borrower whose health factor
\* floor(floor(realSupply * 80%) * ray / realBorrow) is strictly below one ray;
\* a borrower at exactly one ray, or with no debt, is never liquidated, and a
\* borrower below one ray passes the health check.
C11_LiquidationGate ==
  /\ GateAtBoundary
  /\ InWindow =>
       \A u \in Users, borrower \in Users, amount \in Amounts :
         LiquidationGate(Chain, now, u, borrower, amount)

\* C11 witness: a liquidation has committed, its borrower is back at or above
\* one ray and a second liquidation is refused as not liquidatable; the
\* boundary positions exist.
C11_Witness ==
  /\ BoundaryReached
  /\ last.op = "liquidate"
  /\ InWindow
  /\ HealthOf(accounts[last.target], _accrueInterest(Globals, now)) >= RAY
  /\ liquidateCall(Chain, now, last.user, last.target, last.amount).err = "NotLiquidatable"


\* C12: a committed liquidate seizes actualRepay plus a 5% bonus, with
\* actualRepay = min(repayAmount, borrower's real borrow after accrual), pays
\* the seized amount to the liquidator, lowers totalSupply by exactly the
\* seized amount and lowers totalBorrow by exactly actualRepay.
C12_SeizeWithBonus ==
  [][last'.op = "liquidate" =>
       LET u == last'.user
           r == liquidateCall(Chain, now, u, last'.target, last'.amount)
           actualRepay == Min(last'.amount,
                              getBorrowBalance(accounts[last'.target], r.mid))
           seize == actualRepay + (actualRepay * 5) \div 100
       IN /\ wallet'[u] = wallet[u] - last'.amount + seize
          /\ totalSupply' = r.mid.totalSupply - seize
          /\ totalBorrow' = r.mid.totalBorrow - actualRepay]_vars

\* C13: setCollateralEnabled(false) reverts whenever the caller's real borrow
\* is positive and leaves collateralEnabled true; right after the caller has
\* repaid its whole debt, setCollateralEnabled(false) commits; and
\* setCollateralEnabled(true) commits in every reachable state.
C13_CollateralToggle ==
  InWindow =>
    \A u \in Users :
      LET off == setCollateralEnabledCall(Chain, now, u, FALSE)
          on == setCollateralEnabledCall(Chain, now, u, TRUE)
          realBorrow == getBorrowBalance(accounts[u], off.mid)
      IN /\ realBorrow > 0 =>
              off.err # "none" /\ off.post.accounts[u].collateralEnabled
         /\ last.op = "repay" /\ last.user = u /\ accounts[u].borrowBalance = 0
              => off.err = "none"
         /\ on.err = "none"

\* every amount either specification passes to an entry point
AllAmounts == Amounts \cup UNION {DustAmounts[f] : f \in DOMAIN DustAmounts}

\* a failed call leaves chain state c as it was
Atomic(c, r) == r.err # "none" => r.post = c

AtTransfer_LedgerPending(c, r) == [r.post EXCEPT !.accounts = c.accounts]

\* The chain state in which the recipient's callback runs during the outgoing
\* transfer of the committed call that produced r on chain state c: in
\* withdraw, borrow, claimRewards and liquidate the transfer is the last
\* statement, after every storage write.
AtTransfer(c, r) == r.post

\* The callback that runs in the transfer of the committed call with result
\* outer, made by u on chain state c, observes the ledger as outer commits
\* it, and each entry point that sends value out, re-entered by u from the
\* callback, does what the same call does when made right after outer.
SeesFinalState(c, t, u, outer) ==
  outer.err = "none" =>
    LET seen == AtTransfer(c, outer) IN
    /\ seen.g = outer.post.g
    /\ seen.accounts = outer.post.accounts
    /\ claimRewardsCall(seen, t, u) = claimRewardsCall(outer.post, t, u)
    /\ \A amount2 \in AllAmounts \ {0} :
         /\ withdrawCall(seen, t, u, amount2) = withdrawCall(outer.post, t, u, amount2)
         /\ borrowCall(seen, t, u, amount2) = borrowCall(outer.post, t, u, amount2)

C16_SyncBeforeChange ==
  [][/\ last'.op \in {"supplyNative", "withdraw", "borrow", "repay"} =>
          /\ lastUpdateTime' = now
          /\ accounts'[last'.user].lastRewardUpdate = now
     /\ last'.op = "liquidate" =>
          LET synced == _updateUserRewards(accounts[last'.target],
                                           _accrueInterest(Globals, now), now)
          IN /\ lastUpdateTime' = now
             /\ accounts'[last'.target].lastRewardUpdate = now
             /\ accounts'[last'.target].accruedRewards = synced.accruedRewards]_vars

\* C17: in every reachable state and for every account, getAccruedRewards at
\* the current timestamp returns the accruedRewards that the account stores
\* right after the accrual and reward sync of a call it makes at that
\* timestamp.
C17_RewardsViewAgrees ==
  InWindow =>
    \A u \in Users :
      LET g == _accrueInterest(Globals, now) IN
      ~RewardsPanic(accounts[u], g, now) =>
        getAccruedRewards(accounts[u], Globals, now)
          = _updateUserRewards(accounts[u], g, now).accruedRewards

\* C18: claimRewards reverts when the caller's accruedRewards after the sync
\* are 0; a committed claimRewards pays min(accruedRewards, contract balance)
\* to the caller and leaves accruedRewards equal to the synced amount minus
\* what was paid.
C18_ClaimKeepsUnpaid ==
  [][/\ InWindow =>
          \A u \in Users :
            claimRewardsCall(Chain, now, u).midAcct.accruedRewards = 0
              => claimRewardsCall(Chain, now, u).err # "none"
     /\ last'.op = "claimRewards" =>
          LET u == last'.user
              before == claimRewardsCall(Chain, now, u).midAcct.accruedRewards
              paid == Min(before, balance)
          IN /\ before > 0
             /\ wallet'[u] = wallet[u] + paid
             /\ balance' = balance - paid
             /\ accounts'[u].accruedRewards = before - paid]_vars

\* utilisation in basis points as the rate model receives it: 0 for an empty
\* pool, totalBorrow * 10000 / totalSupply otherwise
MaxUtilization == 20000
Utilizations == 0..MaxUtilization
UtilizationOf(g) ==
  IF g.totalSupply = 0 THEN 0 ELSE (g.totalBorrow * BPS) \div g.totalSupply

\* the rate curve as the documentation states it, in basis points
KinkedRate(u) ==
  IF u <= 8000 THEN 200 + (u * 800) \div 8000
  ELSE 1000 + ((u - 8000) * 2000) \div 2000

SupplyRateOf(borrowRate) == (borrowRate * (10000 - 4000)) \div 10000

RateCurve ==
  /\ \A u \in Utilizations : _calculateBorrowRate(u) = KinkedRate(u)
  /\ _calculateBorrowRate(KINK_UTILIZATION + 1) - _calculateBorrowRate(KINK_UTILIZATION) <= 1
  /\ \A u \in Utilizations \ {MaxUtilization} :
       _calculateBorrowRate(u) <= _calculateBorrowRate(u + 1)

\* the reward sync of account u credits the supply rate of the current
\* utilisation for the elapsed time
SyncUsesSupplyRate(acct, g, t) ==
  (acct.supplyBalance # 0 /\ ~RewardsPanic(acct, g, t)) =>
    LET supplyRate == SupplyRateOf(_calculateBorrowRate(UtilizationOf(g)))
        perSecond == (supplyRate * RAY) \div (BPS * SECONDS_PER_YEAR)
        bal == (acct.supplyBalance * g.exchangeRate) \div RAY
    IN _updateUserRewards(acct, g, t).accruedRewards
         = acct.accruedRewards + ((bal * perSecond) \div RAY) * (t - acct.lastRewardUpdate)

\* C19: the borrow rate is 200 + floor(u*800/8000) up to u = 8000 and
\* 1000 + floor((u-8000)*2000/2000) above, continuous at the kink and
\* non-decreasing; getSupplyAPY and the reward sync use the supply rate
\* floor(borrowRate * (10000 - 4000) / 10000) of the current utilisation.
C19_RateModel ==
  /\ RateCurve
  /\ getSupplyAPY(Globals) = SupplyRateOf(_calculateBorrowRate(UtilizationOf(Globals)))
  /\ \A u \in Users : SyncUsesSupplyRate(accounts[u], _accrueInterest(Globals, now), now)

\* utilisation in basis points as _accrueInterest passes it to the rate model
AccrualUtilization(g) ==
  IF g.totalSupply = 0 THEN 0
  ELSE LET utilization ==
             IF g.totalBorrow > 0 THEN (g.totalBorrow * RAY) \div g.totalSupply ELSE 0
       IN (utilization * BPS) \div RAY

\* C20: in every reachable state the utilisation given to the rate model by
\* the accrual, the reward sync and the APY views is at most 10000 basis
\* points, and the annual borrow rate is at most 3000 basis points.
C20_UtilizationBounded ==
  /\ UtilizationOf(Globals) <= BPS
  /\ AccrualUtilization(Globals) <= BPS
  /\ getBorrowAPY(Globals) <= BASE_RATE + MULTIPLIER + JUMP_MULTIPLIER
  /\ _calculateBorrowRate(AccrualUtilization(Globals))
       <= BASE_RATE + MULTIPLIER + JUMP_MULTIPLIER

\* the interest one accrual at timestamp t adds to totalBorrow
InterestOf(g, t) == _accrueInterest(g, t).totalBorrow - g.totalBorrow

\* the accrual of globals g at timestamp t splits its interest exactly
AccrualConserves(g, t) ==
  LET g2 == _accrueInterest(g, t)
      interestAccrued == g2.totalBorrow - g.totalBorrow
      reserveCut == (interestAccrued * 4000) \div 10000
      supplierShare == interestAccrued - reserveCut
  IN /\ interestAccrued >= 0
     /\ g2.totalReserves = g.totalReserves + reserveCut
     /\ g2.totalSupply = g.totalSupply + supplierShare
     /\ g2.totalSupply + g2.totalReserves - g2.totalBorrow
          = g.totalSupply + g.totalReserves - g.totalBorrow

\* the timestamps at which the next call can run its accrual
AccrualTimes == {t \in {now} \cup {now + dt : dt \in TimeSteps} : t <= MaxTime}

\* C21: every accrual step splits interestAccrued into reserveCut =
\* floor(interestAccrued * reserveFactor) and supplierShare = the rest, adds
\* them to totalReserves, totalSupply and totalBorrow, and so leaves
\* totalSupply + totalReserves - totalBorrow unchanged.
C21_AccrualConserves ==
  [](InWindow => \A t \in AccrualTimes : AccrualConserves(Globals, t))

\* an accrual whose interest does not split evenly is pending
C21_Witness ==
  /\ InWindow
  /\ InterestOf(Globals, now) > 0
  /\ (InterestOf(Globals, now) * 4000) % 10000 # 0
  /\ (InterestOf(Globals, now) * 4000) \div 10000 > 0

\* two withdrawals of account u in a row at timestamp t both commit
TwoWithdrawals(c, t, u, a, b) ==
  /\ withdrawCall(c, t, u, a).err = "none"
  /\ withdrawCall(withdrawCall(c, t, u, a).post, t, u, b).err = "none"

\* C22: a committed withdraw(amount) lowers the caller's realSupply by at
\* least amount, a committed supplyNative(amount) raises it by at most
\* amount, and withdrawals at one timestamp never take out more than the
\* realSupply the account had at the start.
C22_NoValueFromRounding ==
  [][/\ last'.op = "withdraw" =>
          LET r == withdrawCall(Chain, now, last'.user, last'.amount)
          IN getSupplyBalance(accounts'[last'.user], Globals')
               <= getSupplyBalance(r.midAcct, r.mid) - last'.amount
     /\ last'.op = "supplyNative" =>
          LET r == supplyNativeCall(Chain, now, last'.user, last'.amount)
          IN getSupplyBalance(accounts'[last'.user], Globals')
               <= getSupplyBalance(r.midAcct, r.mid) + last'.amount
     /\ InWindow =>
          \A u \in Users, a \in DustAmounts.withdraw, b \in DustAmounts.withdraw :
            TwoWithdrawals(Chain, now, u, a, b) =>
              a + b <= getSupplyBalance(accounts[u], _accrueInterest(Globals, now))]_vars

\* further amounts tried after the limit has been borrowed
MaxFurther == 5

\* account u borrows what is left of its limit at timestamp t (the accrual
\* of the block has run), and then asks for more in the same block
BorrowsToLimit(c, t, u) ==
  LET g == _accrueInterest(c.g, t)
      room == getAvailableToBorrow(c.accounts[u], g)
  IN /\ c.accounts[u].collateralEnabled
     /\ room > 0
     /\ borrowCall(c, t, u, room).err = "none"

AfterLimit(c, t, u) ==
  borrowCall(c, t, u, getAvailableToBorrow(c.accounts[u], _accrueInterest(c.g, t))).post

\* C23: once a collateral-enabled account has borrowed exactly its limit
\* (70% of its realSupply), every further borrow of an amount > 0 at the
\* same timestamp fails with ExceedsBorrowCapacity.
C23_NoBorrowBeyondLimit ==
  InWindow =>
    \A u \in Users :
      BorrowsToLimit(Chain, now, u) =>
        \A more \in 1..MaxFurther :
          borrowCall(AfterLimit(Chain, now, u), now, u, more).err = "ExceedsBorrowCapacity"

\* borrow(amount) of account u gets past its capacity check
PassesCapacityCheck(c, t, u, amount) ==
  borrowCall(c, t, u, amount).err
    \notin {"Panic", "InvalidAmount", "CollateralDisabled", "ExceedsBorrowCapacity"}

\* the amounts tried against the view: the explored ones and the two around
\* the value the view returns
AmountsAround(room) == (AllAmounts \cup {room, room + 1}) \ {0}

C25_CashSolvency ==
  balance >= totalSupply + totalReserves - totalBorrow

\* realSupply and realBorrow summed over all accounts, as the globals g
\* value them
RECURSIVE SumOver(_, _)
SumOver(f, S) ==
  IF S = {} THEN 0
  ELSE LET u == CHOOSE x \in S : TRUE IN f[u] + SumOver(f, S \ {u})

SumRealSupply(accts, g) == SumOver([u \in Users |-> getSupplyBalance(accts[u], g)], Users)
SumRealBorrow(accts, g) == SumOver([u \in Users |-> getBorrowBalance(accts[u], g)], Users)

\* C26: in every reachable state the realSupply of all accounts together is
\* at most totalSupply, also as the next call values them after its accrual,
\* so that totalSupply -= amount cannot underflow for an amount that passed
\* the balance check of withdraw or liquidate.
C26_SupplyCovered ==
  /\ SumRealSupply(accounts, Globals) <= totalSupply
  /\ InWindow =>
       SumRealSupply(accounts, _accrueInterest(Globals, now))
         <= _accrueInterest(Globals, now).totalSupply

\* C27: in every reachable state the realBorrow of all accounts together is
\* at most totalBorrow, also as the next call values them after its accrual,
\* so that totalBorrow -= repayAmount cannot underflow in repay or liquidate.
C27_BorrowCovered ==
  [](/\ SumRealBorrow(accounts, Globals) <= totalBorrow
     /\ InWindow =>
          SumRealBorrow(accounts, _accrueInterest(Globals, now))
            <= _accrueInterest(Globals, now).totalBorrow)

\* a repayment or liquidation has been committed after interest accrued and
\* part of the debt is still owed
C27_Witness ==
  /\ last.op \in {"repay", "liquidate"}
  /\ borrowIndex > RAY
  /\ SumRealBorrow(accounts, Globals) > 0
  /\ SumRealBorrow(accounts, Globals) < totalBorrow

\* C28: in every reachable state in which the realBorrow of every account
\* is 0, totalBorrow is 0, and an accrual adds no interest.
C28_NoPhantomDebt ==
  (\A u \in Users : getBorrowBalance(accounts[u], Globals) = 0) =>
     /\ totalBorrow = 0
     /\ InWindow => \A t \in AccrualTimes : InterestOf(Globals, t) = 0

\* C29: right after a committed borrow or withdraw the health factor of the
\* caller is at least one ray, and no liquidate against the caller commits
\* at the same timestamp.
C29_NoSelfInflictedLiquidation ==
  []((InWindow /\ last.op \in {"borrow", "withdraw"}) =>
       /\ HealthOf(accounts[last.user], Globals) >= RAY
       /\ \A l \in Users, amount \in AllAmounts :
            liquidateCall(Chain, now, l, last.user, amount).err # "none")

\* an indebted account has just withdrawn, or an account has just borrowed
\* on top of a debt that has accrued interest
C29_Witness ==
  /\ InWindow
  /\ last.op \in {"borrow", "withdraw"}
  /\ getBorrowBalance(accounts[last.user], Globals) > 0
  /\ accounts[last.user].collateralEnabled
  /\ borrowIndex > RAY
  /\ \E l \in Users, amount \in AllAmounts :
       liquidateCall(Chain, now, l, last.user, amount).err = "NotLiquidatable"

\* the fields of a borrower record that liquidate leaves alone
RewardFields(acct) ==
  <<acct.collateralEnabled, acct.accruedRewards, acct.lastRewardUpdate>>

\* C30: a committed supplyNative, withdraw, borrow, repay,
\* setCollateralEnabled or claimRewards of account A leaves the record of
\* every other account as it was; a committed liquidate leaves the record
\* of the liquidator and of every third account as it was and keeps the
\* collateralEnabled, accruedRewards and lastRewardUpdate of the borrower.
C30_Frame ==
  [][/\ last'.op \in {"supplyNative", "withdraw", "borrow", "repay",
                      "setCollateralEnabled", "claimRewards"} =>
          \A b \in Users \ {last'.user} : accounts'[b] = accounts[b]
     /\ last'.op = "liquidate" =>
          /\ \A b \in Users \ {last'.target} : accounts'[b] = accounts[b]
          /\ RewardFields(accounts'[last'.target]) = RewardFields(accounts[last'.target])]_vars

\* a liquidation has been committed by a liquidator whose own supply had
\* rewards pending, against a borrower whose rewards were pending too
C30_Witness ==
  /\ last.op = "liquidate"
  /\ accounts[last.user].supplyBalance > 0
  /\ accounts[last.user].lastRewardUpdate < now
  /\ accounts[last.target].supplyBalance > 0
  /\ accounts[last.target].lastRewardUpdate < now

====
